---- MODULE Spec2Model ----
(***************************************************************************)
(* MessageService (apps/meteor/server/services/messages/service.ts).       *)
(*                                                                         *)
(* The model follows one beforeSave run at a time through its awaits,      *)
(* together with the settings store and the bad-word watcher that run      *)
(* beside it.  A text is a sequence of tokens: plain words, the collective *)
(* mentions "all" and "here", permalinks "q1"/"q2" to other messages, and  *)
(* streaming links "s1".                                                   *)
(***************************************************************************)
EXTENDS Integers, Sequences, FiniteSets, TLC

\* ---------------------------------------------------------------- bounds
\* Number of settings changes followed in one behaviour.
MaxChanges == 1

\* Number of system messages saved in one behaviour.
MaxSaves == 2

\* Length of the Message_CustomDomain_AutoLink values tried.
MaxStrLen == 3

\* ------------------------------------------------------ program constants
\* service.ts:181, the tolerance of isEditedOrOld in milliseconds.
Tolerance == 60000

\* service.ts:21, DISABLE_MESSAGE_PARSER is not set.
disableMarkdownParser == FALSE

\* ------------------------------------------------------------ input sets
Texts ==
    { <<"all">>,
      <<"all", "here">>,
      <<"bad", "q1", "q2", "s1">> }

QuoteLinks == {"q1", "q2"}
SpotifyLinks == {"s1"}

\* Creation timestamps a caller passes: none, or this instant.
TsTime == Tolerance + 1
TsValues == { [has |-> FALSE, time |-> 0], [has |-> TRUE, time |-> TsTime] }

\* Values Date.now() returns at service.ts:181: 60001 and 60000 ms before TsTime,
\* 60000 and 60001 ms after it.
NowValues == {0, 1, 2 * Tolerance + 1, 2 * Tolerance + 2}

Permissions == {"mention-all", "mention-here"}

\* The three members of the Promise.all of service.ts:149-153, in listing order.
CheckNames == <<"isWithinLimits", "preventMention.all", "preventMention.here">>
Checks == {CheckNames[i] : i \in 1..3}


\* ------------------------------------------------------------- utilities
Abs(x) == IF x < 0 THEN -x ELSE x

Contains(text, tok) == \E i \in 1..Len(text) : text[i] = tok

RECURSIVE MapText(_, _, _)
\* text with every token in words replaced by its mask.
MapText(text, words, i) ==
    IF i > Len(text) THEN <<>>
    ELSE << (IF text[i] \in words
             THEN (CASE text[i] = "bad" -> "***" [] OTHER -> "*")
             ELSE text[i]) >> \o MapText(text, words, i + 1)

\* ---------------------------------------------------------- settings store
\* The keys configureBadWords watches (service.ts:65).
WatchedKeys ==
    {"Message_AllowBadWordsFilter", "Message_BadWordsFilterList", "Message_BadWordsWhitelist"}

\* The stored settings a deployment starts with; the bad-word filter may be on or off.
InitialSettings(allow) ==
    [ Message_AllowBadWordsFilter |-> allow,
      Message_BadWordsFilterList |-> {"bad"},
      Message_BadWordsWhitelist |-> {},
      Message_QuoteChainLimit |-> 2,
      Site_Url |-> "site",
      UI_Use_Real_Name |-> FALSE,
      Message_Read_Receipt_Enabled |-> FALSE,
      Message_CustomDomain_AutoLink |-> <<>>,
      HexColorPreview_Enabled |-> TRUE,
      Katex_Enabled |-> TRUE,
      Katex_Dollar_Syntax |-> FALSE,
      Katex_Parenthesis_Syntax |-> TRUE ]

\* The changes an administrator makes while the service runs.
SettingChanges ==
    { <<"Message_AllowBadWordsFilter", TRUE>>,
      <<"Message_AllowBadWordsFilter", FALSE>>,
      <<"Message_BadWordsFilterList", {}>>,
      <<"Message_QuoteChainLimit", 1>>,
      <<"Message_Read_Receipt_Enabled", TRUE>> }

\* ------------------------------------------------------- getMarkdownConfig
\* A string setting is a sequence of characters.
RECURSIVE SplitFrom(_, _, _)
\* String.prototype.split(','): the items between the commas, from position i on,
\* cur being the item read so far.
SplitFrom(str, i, cur) ==
    IF i > Len(str) THEN <<cur>>
    ELSE IF str[i] = "," THEN <<cur>> \o SplitFrom(str, i + 1, <<>>)
    ELSE SplitFrom(str, i + 1, Append(cur, str[i]))

RECURSIVE TrimLeft(_)
TrimLeft(str) ==
    IF str # <<>> /\ Head(str) = " " THEN TrimLeft(Tail(str)) ELSE str

RECURSIVE TrimRight(_)
TrimRight(str) ==
    IF str # <<>> /\ str[Len(str)] = " "
    THEN TrimRight(SubSeq(str, 1, Len(str) - 1)) ELSE str

Trim(str) == TrimRight(TrimLeft(str))

\* customDomains without the trim of the items.
customDomains_NoTrim(s) ==
    IF s.Message_CustomDomain_AutoLink # <<>>
    THEN SplitFrom(s.Message_CustomDomain_AutoLink, 1, <<>>)
    ELSE <<>>

\* service.ts:160-161: a falsy setting (unset or the empty string, both the empty
\* sequence here) gives no domains.
customDomains(s) ==
    IF s.Message_CustomDomain_AutoLink # <<>>
    THEN LET items == SplitFrom(s.Message_CustomDomain_AutoLink, 1, <<>>)
         IN [i \in 1..Len(items) |-> Trim(items[i])]
    ELSE <<>>

\* katex is a sequence of at most one section: absent when Katex_Enabled is off.
getMarkdownConfig(s) ==
    [ colors |-> s.HexColorPreview_Enabled,
      emoticons |-> TRUE,
      customDomains |-> customDomains(s),
      katex |-> IF s.Katex_Enabled
                THEN << [ dollarSyntax |-> s.Katex_Dollar_Syntax,
                          parenthesisSyntax |-> s.Katex_Parenthesis_Syntax ] >>
                ELSE <<>> ]

\* jumpToMessageConfig with a chain limit one above the setting.
jumpToMessageConfig_OffByOne(s) ==
    [ chainLimit |-> s.Message_QuoteChainLimit + 1,
      siteUrl |-> s.Site_Url,
      useRealName |-> s.UI_Use_Real_Name ]

\* The config object of service.ts:141-145.
jumpToMessageConfig(s) ==
    [ chainLimit |-> s.Message_QuoteChainLimit,
      siteUrl |-> s.Site_Url,
      useRealName |-> s.UI_Use_Real_Name ]

\* ------------------------------------------------------------------ hooks
NewMessage(text, ts, edited) ==
    [ _id |-> "m1", rid |-> "r1", msg |-> text, md |-> <<>>,
      attachments |-> <<>>, ts |-> ts, edited |-> edited ]

isEditedMessage(message) == message.edited

\* BeforeSaveMarkdownParser.parseMarkdown: the rendering is a function of the raw
\* text and the config; the raw text is kept.
parseMarkdown(message, config, enabled) ==
    IF enabled
    THEN [message EXCEPT !.md = << [src |-> message.msg, config |-> config] >>]
    ELSE message

\* A BeforeSaveBadWords that was never configured, or was disabled, passes through.
BadWordsOff == [enabled |-> FALSE, list |-> {}, whiteList |-> {}]

filterBadWords(message, hook) ==
    IF hook.enabled
    THEN [message EXCEPT !.msg = MapText(message.msg, hook.list \ hook.whiteList, 1)]
    ELSE message

RECURSIVE SpotifyAttachments(_, _)
SpotifyAttachments(text, i) ==
    IF i > Len(text) THEN <<>>
    ELSE (IF text[i] \in SpotifyLinks
          THEN << [kind |-> "spotify", ref |-> text[i], icon |-> ""] >>
          ELSE <<>>) \o SpotifyAttachments(text, i + 1)

convertSpotifyLinks(message) ==
    [message EXCEPT !.attachments = @ \o SpotifyAttachments(message.msg, 1)]

\* service.ts:52-54: an avatar that cannot be resolved becomes the empty string.
getUserAvatarURL(resolved) == IF resolved THEN "avatar" ELSE ""

RECURSIVE QuoteAttachments(_, _, _, _, _)
\* The quoted attachments for the permalinks of text from position i on, n of the
\* chain limit being left; found are the links whose message and room resolve and
\* whose room the user may access.
QuoteAttachments(text, i, n, found, avatar) ==
    IF i > Len(text) \/ n <= 0 THEN <<>>
    ELSE IF text[i] \in QuoteLinks /\ text[i] \in found
    THEN << [kind |-> "quote", ref |-> text[i], icon |-> getUserAvatarURL(avatar)] >>
         \o QuoteAttachments(text, i + 1, n - 1, found, avatar)
    ELSE QuoteAttachments(text, i + 1, n, found, avatar)

\* createAttachmentForMessageURLs putting the quoted attachments first.
createAttachmentForMessageURLs_Prepend(message, config, found, avatar) ==
    [message EXCEPT !.attachments =
        QuoteAttachments(message.msg, 1, config.chainLimit, found, avatar) \o @]

createAttachmentForMessageURLs(message, config, found, avatar) ==
    [message EXCEPT !.attachments =
        @ \o QuoteAttachments(message.msg, 1, config.chainLimit, found, avatar)]

\* BeforeSaveCheckMAC.isWithinLimits vetoes when the room's threshold is exceeded.
isWithinLimits(exceeded) == ~exceeded

\* BeforeSavePreventMention.preventMention passes unless the text holds the mention
\* and the user lacks the permission.
preventMention(message, granted, mention, permission) ==
    ~Contains(message.msg, mention) \/ permission \in granted

\* ------------------------------------------------------------------ state
VARIABLES
    settings,          \* the settings store (app/settings/server)
    version,           \* how many times the settings store has changed
    badWords,          \* this.badWords, the state of the bad-word hook
    pendingConfigure,  \* badWords.configure calls awaited by the watcher callback
    pc,                \* where the beforeSave run is suspended
    message,           \* the local variable message of beforeSave
    staged,            \* the value the awaited stage will resolve with
    reads,             \* the settings the run read at service.ts:134 and :141-145
    started,           \* the bad-word hook state when the run was called
    clock,             \* what Date.now() returned at service.ts:181
    world,             \* the collaborators' answers the run has consulted
    checks,            \* the state of each member of the Promise.all
    outcome,           \* how the promise beforeSave returned has settled
    error,             \* the error it rejected with
    returned,          \* the message it resolved with
    log,               \* the hook calls and returns of the run, in order
    other,             \* a second beforeSave call in flight, suspended at an await
    sys,               \* the saveSystemMessage call the model is following
    sysOther,          \* a second saveSystemMessage call in flight
    store,             \* the messages collection (Messages)
    broadcasts         \* the 'message.sent' broadcasts issued, in order

vars ==
    << settings, version, badWords, pendingConfigure, pc, message, staged, reads,
       started, clock, world, checks, outcome, error, returned, log, other, sys,
       sysOther, store, broadcasts >>

envVars == << settings, version, badWords, pendingConfigure >>
runVars ==
    << pc, message, staged, reads, started, clock, world, checks, outcome, error,
       returned, log >>

sysVars == << sys, sysOther, store, broadcasts >>
restVars == << other, sys, sysOther, store, broadcasts >>

NoWorld == [granted |-> {}, exceeded |-> FALSE, found |-> {}, avatar |-> FALSE]
NoReads == [markdown |-> <<>>, jump |-> <<>>]
NotStarted == [c \in Checks |-> "idle"]

Event(op, ev, m) == [op |-> op, ev |-> ev, message |-> m]

\* The frame of the beforeSave call the model is following.
RunState ==
    [ pc |-> pc, message |-> message, staged |-> staged, reads |-> reads,
      started |-> started, clock |-> clock, world |-> world, checks |-> checks,
      outcome |-> outcome, error |-> error, returned |-> returned, log |-> log ]

\* No call of beforeSave.
IdleRun ==
    [ pc |-> "idle",
      message |-> NewMessage(<<>>, [has |-> FALSE, time |-> 0], FALSE),
      staged |-> NewMessage(<<>>, [has |-> FALSE, time |-> 0], FALSE),
      reads |-> NoReads, started |-> BadWordsOff, clock |-> 0, world |-> NoWorld,
      checks |-> NotStarted, outcome |-> "none", error |-> "none",
      returned |-> <<>>, log |-> <<>> ]

\* No call of saveSystemMessage.
IdleSave ==
    [ pc |-> "idle", username |-> [has |-> FALSE, value |-> ""], type |-> "",
      unread |-> FALSE, insertedId |-> <<>>, result |-> <<>>, failure |-> "" ]

InitRun ==
    /\ pc = "idle"
    /\ message = NewMessage(<<>>, [has |-> FALSE, time |-> 0], FALSE)
    /\ staged = message
    /\ reads = NoReads
    /\ started = BadWordsOff
    /\ clock = 0
    /\ world = NoWorld
    /\ checks = NotStarted
    /\ outcome = "none"
    /\ error = "none"
    /\ returned = <<>>
    /\ log = <<>>
    /\ other = IdleRun
    /\ sys = IdleSave
    /\ sysOther = IdleSave
    /\ store = <<>>
    /\ broadcasts = <<>>

\* created(), service.ts:38-61: the hooks are constructed and the watcher is
\* registered; its callback runs once with the stored values.
Init ==
    /\ \E allow \in BOOLEAN :
         /\ settings = InitialSettings(allow)
         /\ pendingConfigure =
              IF allow
              THEN << [list |-> InitialSettings(allow).Message_BadWordsFilterList,
                       whiteList |-> InitialSettings(allow).Message_BadWordsWhitelist] >>
              ELSE <<>>
    /\ version = 0
    /\ badWords = BadWordsOff
    /\ InitRun

\* The strings of at most MaxStrLen characters tried for the auto-link setting.
Chars == {"a", " ", ","}
Strings == UNION { [1..n -> Chars] : n \in 0..MaxStrLen }

\* The settings getMarkdownConfig reads, service.ts:159-178, each over its values.
MarkdownSettings ==
    { [InitialSettings(FALSE) EXCEPT
          !.Message_CustomDomain_AutoLink = str,
          !.HexColorPreview_Enabled = flags[1],
          !.Katex_Enabled = flags[2],
          !.Katex_Dollar_Syntax = flags[3],
          !.Katex_Parenthesis_Syntax = flags[4]] :
        str \in Strings, flags \in [1..4 -> BOOLEAN] }

\* The service started under any of the markdown settings.
InitCfg ==
    /\ settings \in MarkdownSettings
    /\ pendingConfigure = <<>>
    /\ version = 0
    /\ badWords = BadWordsOff
    /\ InitRun

\* ------------------------------------------------------ settings and watcher
\* The callback of service.ts:66-72 on the values the watcher delivers.
WatchCallback(s) ==
    IF ~s.Message_AllowBadWordsFilter
    THEN /\ badWords' = BadWordsOff
         /\ UNCHANGED pendingConfigure
    ELSE /\ pendingConfigure' =
              Append(pendingConfigure,
                     [list |-> s.Message_BadWordsFilterList,
                      whiteList |-> s.Message_BadWordsWhitelist])
         /\ UNCHANGED badWords

\* A setting changes; a change of a watched key runs the callback.
SettingsSet ==
    /\ version < MaxChanges
    /\ \E change \in SettingChanges :
         /\ settings[change[1]] # change[2]
         /\ settings' = [settings EXCEPT ![change[1]] = change[2]]
         /\ IF change[1] \in WatchedKeys
            THEN WatchCallback(settings')
            ELSE UNCHANGED << badWords, pendingConfigure >>
    /\ version' = version + 1
    /\ UNCHANGED << runVars, restVars >>

\* The await of service.ts:71 resumes: badWords.configure has built the filter.
ConfigureCompletes ==
    /\ pendingConfigure # <<>>
    /\ badWords' = [enabled |-> TRUE,
                    list |-> Head(pendingConfigure).list,
                    whiteList |-> Head(pendingConfigure).whiteList]
    /\ pendingConfigure' = Tail(pendingConfigure)
    /\ UNCHANGED << settings, version >>
    /\ UNCHANGED << runVars, restVars >>

\* ---------------------------------------------------------------- beforeSave
Stages ==
    {"parseMarkdown", "filterBadWords", "convertSpotifyLinks",
     "createAttachmentForMessageURLs"}

\* After with the bad-word and the streaming-link stage exchanged.
After_Swapped(op) ==
    CASE op = "beforeSave" -> "parseMarkdown"
      [] op = "parseMarkdown" -> "convertSpotifyLinks"
      [] op = "convertSpotifyLinks" -> "filterBadWords"
      [] op = "filterBadWords" -> "createAttachmentForMessageURLs"
      [] op = "createAttachmentForMessageURLs" -> "isEditedOrOld"

\* After going back to the markdown stage when the quote-link stage has returned.
After_Retry(op) ==
    CASE op = "beforeSave" -> "parseMarkdown"
      [] op = "parseMarkdown" -> "filterBadWords"
      [] op = "filterBadWords" -> "convertSpotifyLinks"
      [] op = "convertSpotifyLinks" -> "createAttachmentForMessageURLs"
      [] op = "createAttachmentForMessageURLs" -> "parseMarkdown"

\* The order of the awaits of service.ts:134-148: what follows each step.
After(op) ==
    CASE op = "beforeSave" -> "parseMarkdown"
      [] op = "parseMarkdown" -> "filterBadWords"
      [] op = "filterBadWords" -> "convertSpotifyLinks"
      [] op = "convertSpotifyLinks" -> "createAttachmentForMessageURLs"
      [] op = "createAttachmentForMessageURLs" -> "isEditedOrOld"

\* isEditedOrOld without the test of the edited marker.
isEditedOrOld_NoEdited(m, now) ==
    ~m.ts.has \/ Abs(now - m.ts.time) > Tolerance

\* isEditedOrOld taking a message without a timestamp for a fresh one.
isEditedOrOld_NoTsFresh(m, now) ==
    isEditedMessage(m) \/ (m.ts.has /\ Abs(now - m.ts.time) > Tolerance)

\* isEditedOrOld with the tolerance excluded.
isEditedOrOld_Strict(m, now) ==
    isEditedMessage(m) \/ ~m.ts.has \/ Abs(now - m.ts.time) >= Tolerance

\* isEditedOrOld with its result negated.
isEditedOrOld_Negated(m, now) ==
    ~(isEditedMessage(m) \/ ~m.ts.has \/ Abs(now - m.ts.time) > Tolerance)

isEditedOrOld(m, now) ==
    isEditedMessage(m) \/ ~m.ts.has \/ Abs(now - m.ts.time) > Tolerance

\* Passes with the permissions of the two mention guards exchanged.
Passes_SwappedPermissions(c, m, w) ==
    CASE c = "isWithinLimits" -> isWithinLimits(w.exceeded)
      [] c = "preventMention.all" -> preventMention(m, w.granted, "all", "mention-here")
      [] c = "preventMention.here" -> preventMention(m, w.granted, "here", "mention-all")

\* The arguments of the three calls of service.ts:150-152 and what each decides.
Passes(c, m, w) ==
    CASE c = "isWithinLimits" -> isWithinLimits(w.exceeded)
      [] c = "preventMention.all" -> preventMention(m, w.granted, "all", "mention-all")
      [] c = "preventMention.here" -> preventMention(m, w.granted, "here", "mention-here")

\* Promise.all resolving with the first member that passes.
PromiseAll_Race(cur, chk, c) ==
    IF cur.outcome # "none" THEN cur
    ELSE IF chk[c] = "vetoed" THEN [outcome |-> "Rejected", error |-> c]
    ELSE [outcome |-> "Accepted", error |-> "none"]

\* Promise.all waiting for every member and reporting the first veto in listing order.
PromiseAll_ListingOrder(cur, chk, c) ==
    IF cur.outcome # "none" \/ \E d \in Checks : chk[d] = "pending" THEN cur
    ELSE IF \A d \in Checks : chk[d] = "passed"
    THEN [outcome |-> "Accepted", error |-> "none"]
    ELSE [outcome |-> "Rejected",
          error |-> CheckNames[CHOOSE i \in 1..3 :
                        /\ chk[CheckNames[i]] = "vetoed"
                        /\ \A j \in 1..(i - 1) : chk[CheckNames[j]] # "vetoed"]]

\* await Promise.all([...]), service.ts:149-153: how the promise of beforeSave
\* stands after member c has settled, cur being how it stood and chk the members.
PromiseAll(cur, chk, c) ==
    IF cur.outcome # "none" THEN cur
    ELSE IF chk[c] = "vetoed" THEN [outcome |-> "Rejected", error |-> c]
    ELSE IF \A d \in Checks : chk[d] = "passed"
    THEN [outcome |-> "Accepted", error |-> "none"]
    ELSE cur

\* Whether stage op raises on message m when the collaborators answer w. Under
\* Spec the hooks are taken to absorb every failure as a skip, as their
\* description has it; HookRejects and SpecFail drop that assumption.
Raises(op, m, w) == FALSE

\* Hook op is called with message m, lg being the log so far.
Call(op, m, lg) ==
    /\ pc' = op
    /\ log' = Append(lg, Event(op, "call", m))
    /\ UNCHANGED << clock, checks, outcome, error, returned >>
    /\ CASE op = "parseMarkdown" ->
              /\ staged' = parseMarkdown(m, getMarkdownConfig(settings),
                                         ~disableMarkdownParser)
              /\ reads' = [reads EXCEPT !.markdown = << settings >>]
              /\ UNCHANGED world
         [] op = "filterBadWords" ->
              /\ staged' = filterBadWords(m, badWords)
              /\ UNCHANGED << reads, world >>
         [] op = "convertSpotifyLinks" ->
              /\ staged' = convertSpotifyLinks(m)
              /\ UNCHANGED << reads, world >>
         [] op = "createAttachmentForMessageURLs" ->
              /\ \E found \in SUBSET {l \in QuoteLinks : Contains(m.msg, l)} :
                 \E avatar \in (IF found = {} THEN {FALSE} ELSE BOOLEAN) :
                   /\ staged' = createAttachmentForMessageURLs(
                                    m, jumpToMessageConfig(settings), found, avatar)
                   /\ world' = [world EXCEPT !.found = found, !.avatar = avatar]
              /\ reads' = [reads EXCEPT !.jump = << jumpToMessageConfig(settings) >>]

\* Validate working on the message as it was before the quote-link stage.
Validate_PreviousMessage(m, lg) ==
    \E now \in NowValues :
      /\ clock' = now
      /\ UNCHANGED << staged, reads, error >>
      /\ IF isEditedMessage(message) \/ ~message.ts.has
            \/ Abs(now - message.ts.time) > Tolerance
         THEN /\ pc' = "done"
              /\ outcome' = "Accepted"
              /\ returned' = << message >>
              /\ log' = lg
              /\ UNCHANGED << checks, world >>
         ELSE /\ pc' = "Promise.all"
              /\ \E granted \in SUBSET Permissions, exceeded \in BOOLEAN :
                   world' = [world EXCEPT !.granted = granted, !.exceeded = exceeded]
              /\ checks' = [c \in Checks |-> "pending"]
              /\ log' = lg \o [i \in 1..3 |-> Event(CheckNames[i], "call", message)]
              /\ UNCHANGED << outcome, returned >>

\* service.ts:148-156 on message m: the freshness test, then either the return or
\* the three calls of the Promise.all, made one after the other in listing order.
Validate(m, lg) ==
    \E now \in NowValues :
      /\ clock' = now
      /\ UNCHANGED << staged, reads, error >>
      /\ IF isEditedOrOld(m, now)
         THEN /\ pc' = "done"
              /\ outcome' = "Accepted"
              /\ returned' = << m >>
              /\ log' = lg
              /\ UNCHANGED << checks, world >>
         ELSE /\ pc' = "Promise.all"
              /\ \E granted \in SUBSET Permissions, exceeded \in BOOLEAN :
                   world' = [world EXCEPT !.granted = granted, !.exceeded = exceeded]
              /\ checks' = [c \in Checks |-> "pending"]
              /\ log' = lg \o [i \in 1..3 |-> Event(CheckNames[i], "call", m)]
              /\ UNCHANGED << outcome, returned >>

\* The awaited hook resolves: message is assigned and the next step runs.
\* A hook that raises rejects the await, and with it the promise of beforeSave.
Resume ==
    /\ UNCHANGED started
    /\ IF Raises(pc, message, world)
       THEN /\ pc' = "done"
            /\ outcome' = "Rejected"
            /\ error' = pc
            /\ log' = Append(log, Event(pc, "throw", message))
            /\ UNCHANGED << message, staged, reads, clock, world, checks, returned >>
       ELSE /\ message' = staged
            /\ LET lg == Append(log, Event(pc, "return", staged))
               IN IF After(pc) \in Stages
                  THEN Call(After(pc), staged, lg)
                  ELSE Validate(staged, lg)

\* beforeSave is called, service.ts:122-134.
BeforeSave ==
    /\ pc = "idle"
    /\ \E text \in Texts, ts \in TsValues, edited \in BOOLEAN :
         /\ message' = NewMessage(text, ts, edited)
         /\ Call(After("beforeSave"), message', <<>>)
    /\ started' = badWords
    /\ UNCHANGED << envVars, restVars >>

ParseMarkdownReturns ==
    /\ pc = "parseMarkdown"
    /\ Resume
    /\ UNCHANGED << envVars, restVars >>

FilterBadWordsReturns ==
    /\ pc = "filterBadWords"
    /\ Resume
    /\ UNCHANGED << envVars, restVars >>

ConvertSpotifyLinksReturns ==
    /\ pc = "convertSpotifyLinks"
    /\ Resume
    /\ UNCHANGED << envVars, restVars >>

CreateAttachmentReturns ==
    /\ pc = "createAttachmentForMessageURLs"
    /\ Resume
    /\ UNCHANGED << envVars, restVars >>

\* One member of the Promise.all settles; the members left keep running.
CheckSettles ==
    \E c \in Checks :
      /\ checks[c] = "pending"
      /\ LET ok == Passes(c, message, world)
             chk == [checks EXCEPT ![c] = IF ok THEN "passed" ELSE "vetoed"]
             now == PromiseAll([outcome |-> outcome, error |-> error], chk, c)
         IN /\ checks' = chk
            /\ log' = Append(log, Event(c, IF ok THEN "pass" ELSE "veto", message))
            /\ outcome' = now.outcome
            /\ error' = now.error
            /\ returned' = IF now.outcome = "Accepted" THEN << message >> ELSE returned
            /\ pc' = IF now.outcome = "none" THEN pc ELSE "done"
      /\ UNCHANGED << message, staged, reads, started, clock, world >>
      /\ UNCHANGED << envVars, restVars >>

\* The caller has its result and every member has settled: the run is over.
RunEnds ==
    /\ pc = "done"
    /\ \A c \in Checks : checks[c] # "pending"
    /\ pc' = "idle"
    /\ message' = NewMessage(<<>>, [has |-> FALSE, time |-> 0], FALSE)
    /\ staged' = message'
    /\ reads' = NoReads
    /\ started' = BadWordsOff
    /\ clock' = 0
    /\ world' = NoWorld
    /\ checks' = NotStarted
    /\ outcome' = "none"
    /\ error' = "none"
    /\ returned' = <<>>
    /\ log' = <<>>
    /\ UNCHANGED << envVars, restVars >>

Next ==
    \/ SettingsSet
    \/ ConfigureCompletes
    \/ BeforeSave
    \/ ParseMarkdownReturns
    \/ FilterBadWordsReturns
    \/ ConvertSpotifyLinksReturns
    \/ CreateAttachmentReturns
    \/ CheckSettles
    \/ RunEnds

Spec == Init /\ [][Next]_vars

\* A step of the run: the awaited hook returns, or a member of the Promise.all
\* settles.
RunStep ==
    \/ ParseMarkdownReturns
    \/ FilterBadWordsReturns
    \/ ConvertSpotifyLinksReturns
    \/ CreateAttachmentReturns
    \/ CheckSettles

\* Every awaited hook and every member of the Promise.all eventually settles.
Fairness == WF_vars(RunStep)

\* The runs of a service whose settings stay as they are: a settings change neither
\* enables nor disables a step of a run.
NextLive ==
    \/ ConfigureCompletes
    \/ BeforeSave
    \/ RunStep
    \/ RunEnds

SpecLive == Init /\ [][NextLive]_vars /\ Fairness

\* The promise of the awaited hook rejects: a collaborator handed to the hook
\* (getMessages, getRooms, canAccessRoom, getUserAvatarURL, service.ts:42-55, which
\* pass a failure on as it is) or the hook itself has failed and the hook has not
\* absorbed it. The awaits of service.ts:134-146 stand in no try block, so the
\* rejection is the rejection of beforeSave: the later stages and the checks of
\* lines 148-153 are not reached.
HookRejects ==
    /\ pc \in Stages
    /\ pc' = "done"
    /\ outcome' = "Rejected"
    /\ error' = pc
    /\ log' = Append(log, Event(pc, "throw", message))
    /\ UNCHANGED << message, staged, reads, started, clock, world, checks, returned >>
    /\ UNCHANGED << envVars, restVars >>

\* The runs of a service whose hooks may fail.
NextFail ==
    \/ ConfigureCompletes
    \/ BeforeSave
    \/ RunStep
    \/ HookRejects
    \/ RunEnds

SpecFail == Init /\ [][NextFail]_vars

\* ------------------------------------------------------------- properties
PipelineOrder ==
    << "parseMarkdown", "filterBadWords", "convertSpotifyLinks",
       "createAttachmentForMessageURLs" >>

CallsOf(op) == {i \in 1..Len(log) : log[i].op = op /\ log[i].ev = "call"}
CheckEvents == {i \in 1..Len(log) : log[i].op \in Checks}

\* The freshness test of the run has been made.
Validated == pc \in {"Promise.all", "done"}
Step6Ran == checks # NotStarted
Settled(c) == checks[c] \in {"passed", "vetoed"}

\* C1: the hooks of a run are called in the order markdown, bad words, streaming
\* links, quote links; each is called right after the one before it has returned,
\* with the message that one returned; the three checks are called only after the
\* quote-link stage has returned.
C1_StageOrder ==
    \A i \in 1..Len(log) :
      IF i <= 8
      THEN /\ log[i].op = PipelineOrder[(i + 1) \div 2]
           /\ log[i].ev = (IF i % 2 = 1 THEN "call" ELSE "return")
           /\ (i % 2 = 1 /\ i > 1) => log[i].message = log[i - 1].message
      ELSE log[i].op \in Checks

C1_Witness ==
    /\ outcome = "Rejected"
    /\ Len(log) > 11
    /\ log[3].message # log[1].message

\* C2: for a message with an edited marker, or created more than 60000 ms before
\* the processing time, none of the three checks is ever called.
C2_FreshnessGateSkips ==
    ( \/ message.edited
      \/ (Validated /\ message.ts.has /\ clock - message.ts.time > Tolerance) )
    => /\ checks = NotStarted
       /\ CheckEvents = {}

C2_Witness ==
    /\ pc = "done"
    /\ ~message.edited
    /\ message.ts.has /\ clock - message.ts.time = Tolerance + 1
    /\ Contains(message.msg, "all")
    /\ outcome = "Accepted"

\* C3 as stated: a run of an unedited message without a creation timestamp ends
\* Accepted only after the three checks have been called and have passed.
C3_NoTimestampValidated ==
    (~message.edited /\ ~message.ts.has /\ outcome = "Accepted")
    => \A c \in Checks : checks[c] = "passed"

\* C3 amended: a message without a creation timestamp counts as edited or old:
\* none of the three checks is called and the run ends Accepted.
C3_NoTimestampSkips ==
    (Validated /\ ~message.ts.has)
    => /\ checks = NotStarted
       /\ CheckEvents = {}
       /\ outcome = "Accepted"
       /\ returned = << message >>

C3_Witness ==
    /\ pc = "done"
    /\ ~message.edited /\ ~message.ts.has
    /\ Contains(message.msg, "all")
    /\ outcome = "Accepted"

\* C4: for an unedited message created at most 60000 ms before or after the
\* processing time each of the three checks is called exactly once, the mention
\* guards with 'all'/'mention-all' and 'here'/'mention-here'; for one created more
\* than 60000 ms before or after it none is called.
C4_ToleranceInclusive ==
    (Validated /\ ~message.edited /\ message.ts.has)
    => IF Abs(clock - message.ts.time) <= Tolerance
       THEN /\ \A c \in Checks : Cardinality(CallsOf(c)) = 1
            /\ checks["preventMention.all"] = "vetoed"
                 <=> /\ Settled("preventMention.all")
                     /\ Contains(message.msg, "all")
                     /\ "mention-all" \notin world.granted
            /\ checks["preventMention.here"] = "vetoed"
                 <=> /\ Settled("preventMention.here")
                     /\ Contains(message.msg, "here")
                     /\ "mention-here" \notin world.granted
       ELSE checks = NotStarted /\ CheckEvents = {}

C4_Witness ==
    /\ pc = "Promise.all"
    /\ ~message.edited /\ message.ts.has
    /\ message.ts.time - clock = Tolerance
    /\ \A c \in Checks : Cardinality(CallsOf(c)) = 1

\* C5: when the checks ran, the run is Rejected exactly if a check has vetoed, with
\* the error of a check that vetoed; it is Accepted only once all three have passed;
\* no run delivers both a message and an error.
C5_VetoAggregation ==
    /\ Step6Ran =>
         /\ outcome = "Rejected" <=> \E c \in Checks : checks[c] = "vetoed"
         /\ outcome = "Rejected" => error \in Checks /\ checks[error] = "vetoed"
         /\ outcome = "Accepted" => \A c \in Checks : checks[c] = "passed"
         /\ (\A c \in Checks : checks[c] = "passed") => outcome = "Accepted"
    /\ outcome = "Rejected" => returned = <<>>
    /\ outcome = "Accepted" => error = "none" /\ returned = << message >>
    /\ outcome = "none" => error = "none" /\ returned = <<>>

C5_Witness ==
    /\ outcome = "Rejected"
    /\ \E c \in Checks : checks[c] = "passed"
    /\ \E c \in Checks : checks[c] = "pending"

VetoEvents == {i \in 1..Len(log) : log[i].ev = "veto"}
FirstVeto == CHOOSE i \in VetoEvents : \A j \in VetoEvents : i <= j

\* C6: when several checks veto, the error of the run is that of the check that
\* vetoed first in time, the later vetoes change nothing, and a check that was
\* called keeps running until it settles whatever the others did.
C6_FirstVetoWins ==
    /\ [](VetoEvents # {} => outcome = "Rejected" /\ error = log[FirstVeto].op)
    /\ [][\A c \in Checks :
            checks[c] = "pending" => checks'[c] \in {"pending", "passed", "vetoed"}]_vars
    /\ [][outcome = "Rejected" => (pc' = "idle" \/ (outcome' = outcome /\ error' = error))]_vars

C6_Witness ==
    /\ Cardinality(VetoEvents) >= 2
    /\ error = "preventMention.here"
    /\ checks["preventMention.all"] = "vetoed"
    /\ checks["isWithinLimits"] = "pending"

C8_SnapshotConsistency ==
    reads.jump # <<>> => reads.jump[1] = jumpToMessageConfig(reads.markdown[1])

\* C9: the bad-word stage of a run filters with the bad-word configuration that was
\* in place when the run was called.
C9_RunKeepsStartConfig ==
    \A i \in 2..Len(log) :
      (log[i].op = "filterBadWords" /\ log[i].ev = "return")
      => log[i].message = filterBadWords(log[i - 1].message, started)

MentionChecks ==
    { [check |-> "preventMention.all", mention |-> "all", permission |-> "mention-all"],
      [check |-> "preventMention.here", mention |-> "here", permission |-> "mention-here"] }

Lacks(k) ==
    /\ Step6Ran
    /\ Contains(message.msg, k.mention)
    /\ k.permission \notin world.granted

\* C10 as stated: a fresh, unedited message with a collective mention whose
\* permission the user lacks is Rejected with the veto of that mention kind; with
\* the permissions held and no other veto it is Accepted.
C10_PermissionGate ==
    /\ \A k \in MentionChecks :
         (Lacks(k) /\ pc = "done") => outcome = "Rejected" /\ error = k.check
    /\ (Step6Ran /\ pc = "done" /\ ~world.exceeded /\ \A k \in MentionChecks : ~Lacks(k))
       => outcome = "Accepted"

\* C10 amended: such a message is Rejected, its own mention guard vetoes, and the
\* error is that of the first check to veto: of that mention kind when no other
\* check has vetoed; with the permissions held and no other veto it is Accepted.
C10_PermissionGateFirstVeto ==
    /\ \A k \in MentionChecks :
         Lacks(k) =>
           /\ outcome # "Accepted"
           /\ Settled(k.check) => checks[k.check] = "vetoed"
           /\ pc = "done" =>
                /\ outcome = "Rejected"
                /\ error = log[FirstVeto].op
                /\ (\A d \in Checks \ {k.check} : checks[d] # "vetoed") => error = k.check
    /\ (Step6Ran /\ pc = "done" /\ ~world.exceeded /\ \A k \in MentionChecks : ~Lacks(k))
       => outcome = "Accepted"

C10_Witness ==
    /\ pc = "done"
    /\ outcome = "Rejected"
    /\ error = "preventMention.all"
    /\ world.granted = {"mention-here"}
    /\ Contains(message.msg, "here")
    /\ checks["preventMention.here"] = "passed"

\* ------------------------------------------------- properties, second part
Min(a, b) == IF a <= b THEN a ELSE b

IsPrefix(a, b) == Len(a) <= Len(b) /\ SubSeq(b, 1, Len(a)) = a

\* The permalinks of text that resolve and are accessible, from left to right.
ValidLinks(text, found) ==
    SelectSeq(text, LAMBDA t : t \in QuoteLinks /\ t \in found)

\* C13: when the quote-link stage is called on a text with K valid, accessible
\* permalinks while Message_QuoteChainLimit is N, it appends exactly min(K, N)
\* quoted attachments, those of the first min(K, N) links from left to right.
C13_ChainLimit ==
    [][(pc' = "createAttachmentForMessageURLs" /\ pc # pc') =>
         LET m == log'[Len(log')].message
             valid == ValidLinks(m.msg, world'.found)
             n == Min(Len(valid), settings.Message_QuoteChainLimit)
             out == staged'.attachments
         IN /\ Len(out) = Len(m.attachments) + n
            /\ IsPrefix(m.attachments, out)
            /\ \A i \in 1..n :
                 /\ out[Len(m.attachments) + i].kind = "quote"
                 /\ out[Len(m.attachments) + i].ref = valid[i]]_vars

C13_Witness ==
    /\ pc = "createAttachmentForMessageURLs"
    /\ world.found = {"q1", "q2"}
    /\ settings.Message_QuoteChainLimit = 1
    /\ reads.jump = << jumpToMessageConfig(settings) >>
    /\ Len(staged.attachments) = Len(message.attachments) + 1
    /\ staged.attachments[Len(staged.attachments)].ref = "q1"

\* C14: every message a run hands to a hook or gets back from one has the
\* identifier and room identifier of the input message, and its attachment list
\* starts with the attachment list of the message before it.
C14_IdentityAndAppendOnly ==
    /\ \A i \in 1..Len(log) :
         /\ log[i].message._id = log[1].message._id
         /\ log[i].message.rid = log[1].message.rid
         /\ i > 1 => IsPrefix(log[i - 1].message.attachments, log[i].message.attachments)
    /\ log # <<>> =>
         /\ message._id = log[1].message._id /\ message.rid = log[1].message.rid
         /\ staged._id = log[1].message._id /\ staged.rid = log[1].message.rid
         /\ IsPrefix(message.attachments, staged.attachments)
    /\ \A i \in 1..Len(returned) :
         /\ returned[i]._id = log[1].message._id
         /\ returned[i].rid = log[1].message.rid
         /\ IsPrefix(log[1].message.attachments, returned[i].attachments)

C14_Witness ==
    /\ pc = "done"
    /\ Len(returned) = 1
    /\ Len(returned[1].attachments) = 3
    /\ returned[1].attachments[1].kind = "spotify"
    /\ returned[1].attachments[3].ref = "q2"

\* C15: a run of an edited message, or of one created more than 60000 ms before
\* the processing time, goes through the four stages and ends Accepted with the
\* message the last stage returned; no check is called and the collective mentions
\* of the input are still in the text.
C15_EditedOrStaleAccepted ==
    (pc = "done" /\ ( \/ message.edited
                     \/ (message.ts.has /\ clock - message.ts.time > Tolerance) ))
    => /\ outcome = "Accepted"
       /\ Len(log) = 8
       /\ \A k \in 1..4 : log[2 * k].op = PipelineOrder[k] /\ log[2 * k].ev = "return"
       /\ returned = << log[8].message >>
       /\ \A mention \in {"all", "here"} :
            Contains(log[1].message.msg, mention) => Contains(returned[1].msg, mention)

C15_Witness ==
    /\ pc = "done"
    /\ message.edited
    /\ message.ts.has /\ Abs(clock - message.ts.time) <= Tolerance
    /\ Contains(message.msg, "all") /\ Contains(message.msg, "here")
    /\ outcome = "Accepted"

\* C16: an Accepted run returns exactly the message the quote-link stage returned,
\* whether the checks ran or not, and the three checks are called with that message.
C16_Step6LeavesMessage ==
    /\ outcome = "Accepted" => Len(log) >= 8 /\ returned = << log[8].message >>
    /\ \A i \in CheckEvents : log[i].message = log[8].message

C16_Witness ==
    /\ outcome = "Accepted"
    /\ Step6Ran
    /\ Len(returned[1].attachments) = 2
    /\ log[7].message # log[8].message

\* C18: once no badWords.configure is awaited any more, the bad-word hook is off
\* exactly if Message_AllowBadWordsFilter is off, and otherwise holds the word list
\* and whitelist of the settings, which are those of the last notification.
C18_LatestSettingWins ==
    pendingConfigure = <<>> =>
      badWords = IF settings.Message_AllowBadWordsFilter
                 THEN [enabled |-> TRUE,
                       list |-> settings.Message_BadWordsFilterList,
                       whiteList |-> settings.Message_BadWordsWhitelist]
                 ELSE BadWordsOff

\* C17: a run that has been called reaches a terminal state, Accepted or Rejected,
\* and keeps it; within the run every stage and every check is called at most once.
C17_TerminatesOnce ==
    /\ (pc \notin {"idle", "done"}) ~> (pc = "done")
    /\ [](pc = "done" <=> outcome \in {"Accepted", "Rejected"})
    /\ [][outcome # "none" => (pc' = "idle" \/ outcome' = outcome)]_vars
    /\ [](\A op \in Stages \cup Checks : Cardinality(CallsOf(op)) <= 1)

C17_Witness ==
    /\ pc = "done"
    /\ outcome = "Rejected"
    /\ \A c \in Checks : Settled(c)
    /\ \A op \in Stages \cup Checks : Cardinality(CallsOf(op)) = 1

\* beforeSave building the markdown config under every markdown setting.
SpecCfg == InitCfg /\ [][BeforeSave]_vars

CommasOf(str) == Len(SelectSeq(str, LAMBDA ch : ch = ","))

RECURSIVE JoinFrom(_, _)
\* The items from position i on, with a comma between two of them.
JoinFrom(items, i) ==
    IF i > Len(items) THEN <<>>
    ELSE IF i = Len(items) THEN items[i]
    ELSE items[i] \o <<",">> \o JoinFrom(items, i + 1)

NoSpaces(str) == SelectSeq(str, LAMBDA ch : ch # " ")

\* C20: the markdown config handed to the markdown stage has emoticons on, has a
\* katex section exactly when Katex_Enabled is true, with dollarSyntax and
\* parenthesisSyntax as set, and has no custom domains when the auto-link setting
\* is empty; otherwise it has one entry per comma-separated item, each without
\* leading or trailing blanks and otherwise the characters of its item.
C20_MarkdownConfig ==
    (pc = "parseMarkdown" /\ staged.md # <<>>) =>
      LET cfg == staged.md[1].config
          str == settings.Message_CustomDomain_AutoLink
      IN /\ cfg.emoticons = TRUE
         /\ cfg.colors = settings.HexColorPreview_Enabled
         /\ (cfg.katex # <<>>) <=> settings.Katex_Enabled
         /\ cfg.katex # <<>> =>
              /\ Len(cfg.katex) = 1
              /\ cfg.katex[1].dollarSyntax = settings.Katex_Dollar_Syntax
              /\ cfg.katex[1].parenthesisSyntax = settings.Katex_Parenthesis_Syntax
         /\ str = <<>> => cfg.customDomains = <<>>
         /\ str # <<>> =>
              /\ Len(cfg.customDomains) = CommasOf(str) + 1
              /\ \A i \in 1..Len(cfg.customDomains) :
                   LET d == cfg.customDomains[i]
                   IN /\ CommasOf(d) = 0
                      /\ d # <<>> => (d[1] # " " /\ d[Len(d)] # " ")
              /\ NoSpaces(JoinFrom(cfg.customDomains, 1)) = NoSpaces(str)

\* A run whose config has katex off and two domains, one of them trimmed.
C20_Witness ==
    /\ pc = "parseMarkdown"
    /\ staged.md # <<>>
    /\ ~settings.Katex_Enabled
    /\ settings.Message_CustomDomain_AutoLink = <<" ", ",", "a">>
    /\ staged.md[1].config.customDomains = << <<>>, <<"a">> >>
    /\ staged.md[1].config.katex = <<>>
\* --------------------------------------------------------- saveSystemMessage
\* The owners tried: no username, the empty username, a username.
Usernames ==
    { [has |-> FALSE, value |-> ""],
      [has |-> TRUE, value |-> ""],
      [has |-> TRUE, value |-> "rocket.cat"] }

MessageTypes == {"uj", "ul"}

\* The test of the username passing the empty string.
UsernameEmpty_OnlyMissing(username) == ~username.has

\* !username, service.ts:104: undefined and the empty string are both falsy.
UsernameEmpty(username) == ~username.has \/ username.value = ""

\* Messages.createWithTypeRoomIdMessageUserAndUnread: the collection with one more
\* document, whose identifier is the insertedId the call resolves with.
createWithTypeRoomIdMessageUserAndUnread(docs, type, rid, msg, username, unread) ==
    Append(docs, [ _id |-> Len(docs) + 1, t |-> type, rid |-> rid, msg |-> msg,
                   username |-> username, unread |-> unread, edited |-> FALSE,
                   reactions |-> {}, removed |-> FALSE ])

\* ------------------------------------------- send, delete, update, react
\* The collection is a sequence of slots, one per identifier given out; the slot
\* of a deleted message is kept as a mark, so that no identifier is given twice.
Removed(id) ==
    [ _id |-> id, t |-> "", rid |-> "", msg |-> <<>>, username |-> "",
      unread |-> FALSE, edited |-> FALSE, reactions |-> {}, removed |-> TRUE ]

Present(docs, id) == id \in 1..Len(docs) /\ ~docs[id].removed

\* The callers' arguments tried.
Users == { [_id |-> "u1", username |-> "alice"] }
Rooms == { [_id |-> "r1"] }
TargetIds == {1}
Reactions == {":+1:"}

\* app/lib/server/methods/sendMessage.executeSendMessage: an ordinary message of
\* user fromId is added to the collection.
executeSendMessage(docs, fromId, m) ==
    Append(docs, [ _id |-> Len(docs) + 1, t |-> "", rid |-> m.rid,
                   msg |-> m.msg,
                   username |-> (CHOOSE u \in Users : u._id = fromId).username,
                   unread |-> FALSE,
                   edited |-> FALSE, reactions |-> {}, removed |-> FALSE ])

\* app/lib/server/functions/sendMessage.sendMessage: m is added to the
\* collection as a message of user in room.
sendMessage(docs, user, m, room, upsert) ==
    Append(docs, [ _id |-> Len(docs) + 1, t |-> "", rid |-> room._id,
                   msg |-> m.msg, username |-> user.username,
                   unread |-> FALSE, edited |-> FALSE, reactions |-> {},
                   removed |-> FALSE ])

\* app/lib/server/functions/deleteMessage.deleteMessage: the message leaves the
\* collection.
deleteMessage(docs, m, user) ==
    IF Present(docs, m._id)
    THEN [docs EXCEPT ![m._id] = Removed(m._id)]
    ELSE docs

\* app/lib/server/functions/updateMessage.updateMessage: the text of the message
\* is replaced and the message is marked as edited.
updateMessage(docs, m, user) ==
    IF Present(docs, m._id)
    THEN [docs EXCEPT ![m._id].msg = m.msg,
                      ![m._id].edited = TRUE]
    ELSE docs

\* app/reactions/server/setReaction.executeSetReaction: the reaction is set on
\* the message or taken off it.
executeSetReaction(docs, userId, reaction, messageId, shouldReact) ==
    IF Present(docs, messageId)
    THEN [docs EXCEPT ![messageId].reactions =
              IF shouldReact THEN @ \cup {reaction} ELSE @ \ {reaction}]
    ELSE docs

\* The call waiting for the broadcast it issued and failing with it.
AfterBroadcast_Awaited(call, id, ok) ==
    IF call.result = << id >> /\ ~ok
    THEN [call EXCEPT !.pc = "threw", !.result = <<>>, !.failure = "broadcast"]
    ELSE call

\* void broadcastMessageSentEvent(...), service.ts:115: the promise of the
\* broadcast is dropped, so the way it settles leaves the call as it is.
AfterBroadcast(call, id, ok) == call

\* The inserts under way: called and not yet in the collection.
Inserting == {c \in {1, 2} : (IF c = 1 THEN sys ELSE sysOther).pc = "inserting"}

\* saveSystemMessage is called, service.ts:96-114: the username test, then the
\* arguments of the insert are evaluated, the read-receipt setting among them
\* (service.ts:112), and the insert is started.
SaveSystemMessage ==
    /\ sys.pc = "idle"
    /\ Len(store) + Cardinality(Inserting) < MaxSaves
    /\ \E type \in MessageTypes, username \in Usernames :
         sys' = IF UsernameEmpty(username)
                THEN [ pc |-> "threw", username |-> username, type |-> type,
                       unread |-> FALSE, insertedId |-> <<>>, result |-> <<>>,
                       failure |-> "username" ]
                ELSE [ pc |-> "inserting", username |-> username, type |-> type,
                       unread |-> settings.Message_Read_Receipt_Enabled,
                       insertedId |-> <<>>, result |-> <<>>, failure |-> "" ]
    /\ UNCHANGED << sysOther, store, broadcasts, other, envVars, runVars >>

\* The awaited insert rejects, service.ts:107-114: nothing is in the collection,
\* the await raises, and with no handler around it saveSystemMessage ends with the
\* error of the insert before lines 115-119 are reached.
InsertRejects ==
    /\ sys.pc = "inserting"
    /\ sys' = [sys EXCEPT !.pc = "threw", !.failure = "insert"]
    /\ UNCHANGED << sysOther, store, broadcasts, other, envVars, runVars >>

\* The insert reaches the collection with the arguments of the call; its promise
\* holds the identifier of the document.
InsertPersists ==
    /\ sys.pc = "inserting"
    /\ store' = createWithTypeRoomIdMessageUserAndUnread(
                    store, sys.type, "r1", <<"joined">>, sys.username.value,
                    sys.unread)
    /\ sys' = [sys EXCEPT !.pc = "inserted",
                          !.insertedId = << store'[Len(store')]._id >>]
    /\ UNCHANGED << sysOther, broadcasts, other, envVars, runVars >>

\* The await of the insert resumes, service.ts:115-119: the broadcast of
\* result.insertedId is issued and result.insertedId is returned.
InsertReturns ==
    /\ sys.pc = "inserted"
    /\ broadcasts' = Append(broadcasts, [id |-> sys.insertedId[1], state |-> "pending"])
    /\ sys' = [sys EXCEPT !.pc = "returned", !.result = sys.insertedId]
    /\ UNCHANGED << sysOther, store, other, envVars, runVars >>

\* A broadcast completes or fails.
BroadcastSettles ==
    /\ \E i \in 1..Len(broadcasts), ok \in BOOLEAN :
         /\ broadcasts[i].state = "pending"
         /\ broadcasts' = [broadcasts EXCEPT
                              ![i].state = IF ok THEN "sent" ELSE "failed"]
         /\ sys' = AfterBroadcast(sys, broadcasts[i].id, ok)
         /\ sysOther' = AfterBroadcast(sysOther, broadcasts[i].id, ok)
    /\ UNCHANGED << store, other, envVars, runVars >>

\* The caller has taken the result or the error.
SaveEnds ==
    /\ sys.pc \in {"returned", "threw"}
    /\ sys' = IdleSave
    /\ UNCHANGED << sysOther, store, broadcasts, other, envVars, runVars >>

\* The event loop goes over to the other call of saveSystemMessage, or to a
\* caller about to make one: the locals of a call (service.ts:103-119) are its own.
SwapSave ==
    /\ sys # sysOther
    /\ sys' = sysOther
    /\ sysOther' = sys
    /\ UNCHANGED << store, broadcasts, other, envVars, runVars >>

\* sendMessage, service.ts:76-78: forwards fromId and { rid, msg }.
SendMessage ==
    /\ Len(store) + Cardinality(Inserting) < MaxSaves
    /\ \E user \in Users, room \in Rooms :
         store' = executeSendMessage(store, user._id,
                                     [rid |-> room._id, msg |-> <<"hi">>])
    /\ UNCHANGED << sys, sysOther, broadcasts, other, envVars, runVars >>

\* sendMessageWithValidation, service.ts:80-82: forwards user, message, room and
\* upsert, false when the caller leaves it out.
SendMessageWithValidation ==
    /\ Len(store) + Cardinality(Inserting) < MaxSaves
    /\ \E user \in Users, room \in Rooms, upsert \in {FALSE} :
         store' = sendMessage(store, user, [rid |-> room._id, msg |-> <<"hi">>],
                              room, upsert)
    /\ UNCHANGED << sys, sysOther, broadcasts, other, envVars, runVars >>

\* deleteMessage, service.ts:84-86: forwards message, then user.
DeleteMessage ==
    /\ \E user \in Users, id \in TargetIds :
         /\ Present(store, id)
         /\ store' = deleteMessage(store, store[id], user)
    /\ UNCHANGED << sys, sysOther, broadcasts, other, envVars, runVars >>

\* updateMessage, service.ts:88-90: forwards message and user (originalMsg and
\* previewUrls are left out by the callers tried).
UpdateMessage ==
    /\ \E user \in Users, id \in TargetIds :
         /\ Present(store, id)
         /\ store' = updateMessage(store, [store[id] EXCEPT !.msg = <<"edited">>],
                                    user)
    /\ UNCHANGED << sys, sysOther, broadcasts, other, envVars, runVars >>

\* reactToMessage, service.ts:92-94: forwards userId, reaction, messageId and
\* shouldReact.
ReactToMessage ==
    /\ \E user \in Users, reaction \in Reactions, id \in TargetIds,
          shouldReact \in BOOLEAN :
         /\ Present(store, id)
         /\ store' = executeSetReaction(store, user._id, reaction, id, shouldReact)
    /\ UNCHANGED << sys, sysOther, broadcasts, other, envVars, runVars >>

\* The settings change that saveSystemMessage can see: the read-receipt setting.
ReadReceiptSet ==
    /\ SettingsSet
    /\ settings'.Message_Read_Receipt_Enabled # settings.Message_Read_Receipt_Enabled

NextSys ==
    \/ ReadReceiptSet
    \/ SendMessage
    \/ SendMessageWithValidation
    \/ DeleteMessage
    \/ UpdateMessage
    \/ ReactToMessage
    \/ SaveSystemMessage
    \/ InsertRejects
    \/ InsertPersists
    \/ InsertReturns
    \/ BroadcastSettles
    \/ SaveEnds
    \/ SwapSave

\* The service started with the bad-word filter off, which saveSystemMessage
\* does not use.
InitSys == Init /\ ~settings.Message_AllowBadWordsFilter

SpecSys == InitSys /\ [][NextSys]_vars

BroadcastsOf(id) == {i \in 1..Len(broadcasts) : broadcasts[i].id = id}

\* What the claim says of one call of saveSystemMessage wherever it stands.
SaveContractAsStated(call) ==
    call.pc # "idle" =>
      IF ~call.username.has \/ call.username.value = ""
      THEN /\ call.pc = "threw"
           /\ call.failure = "username"
           /\ call.result = <<>>
           /\ call.insertedId = <<>>
      ELSE /\ call.pc \in {"inserting", "inserted", "returned"}
           /\ call.failure = ""
           /\ call.pc = "inserting" => call.insertedId = <<>>
           /\ call.pc \in {"inserted", "returned"} =>
                /\ Len(call.insertedId) = 1
                /\ call.insertedId[1] \in 1..Len(store)
                /\ store[call.insertedId[1]]._id = call.insertedId[1]
           /\ call.pc = "inserted" => BroadcastsOf(call.insertedId[1]) = {}
           /\ call.pc = "returned" =>
                /\ Cardinality(BroadcastsOf(call.insertedId[1])) = 1
                /\ call.result = call.insertedId

\* The same, a call whose insert was rejected apart: it had a username, it ends
\* with the error of the insert, and it has no document and no result.
SaveContract(call) ==
    IF call.pc = "threw" /\ call.failure = "insert"
    THEN /\ call.username.has
         /\ call.username.value # ""
         /\ call.result = <<>>
         /\ call.insertedId = <<>>
    ELSE SaveContractAsStated(call)

\* What one step of the call followed does to the collection and the broadcasts.
SaveStep ==
    (sysOther' = sysOther /\ sys'.pc # sys.pc) =>
      /\ sys'.pc = "threw" =>
           /\ sys.pc \in {"idle", "inserting"}
           /\ sys.pc = "idle" <=> sys'.failure = "username"
           /\ sys.pc = "inserting" <=> sys'.failure = "insert"
           /\ store' = store
           /\ broadcasts' = broadcasts
      /\ sys'.pc = "inserting" => (sys.pc = "idle" /\ store' = store)
      /\ sys'.pc = "inserted" =>
           /\ sys.pc = "inserting"
           /\ Len(store') = Len(store) + 1
           /\ SubSeq(store', 1, Len(store)) = store
           /\ sys'.insertedId = << Len(store') >>
           /\ store'[Len(store')]._id = Len(store')
           /\ store'[Len(store')].username = sys.username.value
           /\ store'[Len(store')].t = sys.type
           /\ store'[Len(store')].unread = sys.unread
           /\ ~store'[Len(store')].removed
           /\ broadcasts' = broadcasts
      /\ sys'.pc = "returned" =>
           /\ sys.pc = "inserted"
           /\ store' = store
           /\ broadcasts' = Append(broadcasts,
                                   [id |-> sys.insertedId[1], state |-> "pending"])
      /\ sys'.pc = "idle" => (store' = store /\ broadcasts' = broadcasts)

\* C11 as stated: a call of saveSystemMessage whose owner has no username or the
\* empty one ends with the username error with nothing persisted and no broadcast;
\* every call with a username persists one message, is never in error, and
\* returns the identifier of its message after the broadcast is issued.
C11_SystemMessageContract ==
    SaveContractAsStated(sys) /\ SaveContractAsStated(sysOther)

\* C11: a call of saveSystemMessage whose owner has no username or the empty one
\* ends with the username error, and that step persists nothing and issues no
\* broadcast; with a username, a call whose insert succeeds persists one message,
\* once, its broadcast is issued only after the message is in the collection, and
\* the value returned is the identifier of that message; a call whose insert is
\* rejected ends with that error, having persisted nothing and issued no
\* broadcast. This holds of calls that overlap too.
C11_SystemMessageContractIfInserted ==
    /\ [](/\ SaveContract(sys)
          /\ SaveContract(sysOther)
          /\ \A i \in 1..Len(broadcasts) : broadcasts[i].id \in 1..Len(store)
          /\ \A i \in 1..Len(store) : ~store[i].removed => store[i].username # ""
          /\ (sys.insertedId # <<>> /\ sysOther.insertedId # <<>>)
               => sys.insertedId # sysOther.insertedId)
    /\ [][SaveStep]_vars

\* A call with a username has ended with the error of its insert, nothing being
\* persisted or broadcast for it, while an overlapping call has saved its message
\* and returned.
C11_Witness ==
    /\ sys.pc = "threw"
    /\ sys.failure = "insert"
    /\ sys.username.value = "rocket.cat"
    /\ sysOther.pc = "returned"
    /\ Len(store) = 1
    /\ Len(broadcasts) = 1

\* What holds of one call's result whatever has become of its broadcast.
BroadcastFree(call) ==
    /\ call.pc = "returned" =>
         /\ call.failure = ""
         /\ call.result = call.insertedId
         /\ call.result # <<>>
         /\ \E i \in BroadcastsOf(call.result[1]) :
              broadcasts[i].state \in {"pending", "sent", "failed"}
    /\ call.pc = "threw" => call.failure \in {"username", "insert"}

\* C19: once the message is persisted the call returns the inserted identifier
\* without waiting for the broadcast, and whether the broadcast is pending, has
\* completed or has failed, the result stays that identifier and no error.
C19_BroadcastNotAwaited ==
    /\ BroadcastFree(sys)
    /\ BroadcastFree(sysOther)
    /\ sys.pc = "inserted" => ENABLED InsertReturns

\* The call has returned the identifier and its broadcast has failed.
C19_Witness ==
    /\ sys.pc = "returned"
    /\ sys.result # <<>>
    /\ \E i \in BroadcastsOf(sys.result[1]) : broadcasts[i].state = "failed"

\* ------------------------------------------------- two calls of beforeSave
\* The event loop going over to the other call with the message and its staged
\* successor kept in one place for both calls.
Swap_SharedMessage ==
    /\ other' = RunState
    /\ pc' = other.pc
    /\ reads' = other.reads
    /\ started' = other.started
    /\ clock' = other.clock
    /\ world' = other.world
    /\ checks' = other.checks
    /\ outcome' = other.outcome
    /\ error' = other.error
    /\ returned' = other.returned
    /\ log' = other.log
    /\ UNCHANGED << message, staged, envVars, sysVars >>

\* The event loop goes over to the other call of beforeSave: message and the
\* awaited results are locals of each call (service.ts:122-157), so the frame
\* followed is put aside whole and the other frame is taken up.
Swap ==
    /\ other' = RunState
    /\ pc' = other.pc
    /\ message' = other.message
    /\ staged' = other.staged
    /\ reads' = other.reads
    /\ started' = other.started
    /\ clock' = other.clock
    /\ world' = other.world
    /\ checks' = other.checks
    /\ outcome' = other.outcome
    /\ error' = other.error
    /\ returned' = other.returned
    /\ log' = other.log
    /\ UNCHANGED << envVars, sysVars >>

\* The service with its settings applied and no change of them under way.
InitPar ==
    /\ \E allow \in BOOLEAN :
         /\ settings = InitialSettings(allow)
         /\ badWords =
              IF allow
              THEN [enabled |-> TRUE,
                    list |-> InitialSettings(allow).Message_BadWordsFilterList,
                    whiteList |-> InitialSettings(allow).Message_BadWordsWhitelist]
              ELSE BadWordsOff
    /\ pendingConfigure = <<>>
    /\ version = 0
    /\ InitRun

\* The inputs of the two calls: two texts with a timestamp, quote links that all
\* resolve or all fail, no constraint exceeded, 'mention-here' never granted.
ParTexts == {<<"all", "here">>, <<"bad", "q1", "q2", "s1">>}

ParBeforeSave ==
    /\ BeforeSave
    /\ message'.msg \in ParTexts
    /\ message'.ts.has

ParConvertSpotifyLinksReturns ==
    /\ ConvertSpotifyLinksReturns
    /\ world'.found \in {{}, {l \in QuoteLinks : Contains(message'.msg, l)}}

ParCreateAttachmentReturns ==
    /\ CreateAttachmentReturns
    /\ ~world'.exceeded
    /\ "mention-here" \notin world'.granted

NextPar ==
    \/ ParBeforeSave
    \/ ParseMarkdownReturns
    \/ FilterBadWordsReturns
    \/ ParConvertSpotifyLinksReturns
    \/ ParCreateAttachmentReturns
    \/ CheckSettles
    \/ RunEnds
    \/ Swap

SpecPar == InitPar /\ [][NextPar]_vars

\* What stage k makes of message m when run on its own under the settings.
SoloStage(k, m, w) ==
    CASE k = 1 -> parseMarkdown(m, getMarkdownConfig(settings), ~disableMarkdownParser)
      [] k = 2 -> filterBadWords(m, badWords)
      [] k = 3 -> convertSpotifyLinks(m)
      [] k = 4 -> createAttachmentForMessageURLs(m, jumpToMessageConfig(settings),
                                                  w.found, w.avatar)

RECURSIVE Solo(_, _, _)
\* The message of a run on its own after its first k stages.
Solo(input, k, w) ==
    IF k = 0 THEN input ELSE SoloStage(k, Solo(input, k - 1, w), w)

\* Frame r holds, at every point, what a run alone on r's own input would hold.
Isolated(r) ==
    r.log # <<>> =>
      LET input == r.log[1].message
          n == Min(Len(r.log), 8)
          final == Solo(input, 4, r.world)
      IN /\ \A i \in 1..n : r.log[i].message = Solo(input, i \div 2, r.world)
         /\ \A i \in (n + 1)..Len(r.log) : r.log[i].message = final
         /\ r.message = Solo(input, n \div 2, r.world)
         /\ r.pc \in Stages => r.staged = Solo(input, (n \div 2) + 1, r.world)
         /\ r.pc = "done" =>
              /\ r.outcome = "Accepted" <=>
                   \/ isEditedOrOld(final, r.clock)
                   \/ \A c \in Checks : Passes(c, final, r.world)
              /\ r.outcome = "Accepted" => r.returned = << final >>
              /\ r.outcome = "Rejected" =>
                   /\ r.error \in Checks
                   /\ ~Passes(r.error, final, r.world)

\* C12: with the settings held fixed and two calls of beforeSave interleaving at
\* their awaits, each call's message, staged result, outcome and returned message
\* are at every point those of a run alone on that call's own input.
C12_RunIsolation == Isolated(RunState) /\ Isolated(other)

\* One call has been accepted with its quote attachments while the other, on a
\* different text, is suspended in the middle of its stages.
C12_Witness ==
    /\ pc = "done"
    /\ outcome = "Accepted"
    /\ returned # <<>>
    /\ Len(returned[1].attachments) > 1
    /\ other.pc = "convertSpotifyLinks"
    /\ other.message.msg = <<"all", "here">>
====
